---- MODULE Spec2Model ----
(***************************************************************************)
(* Model of the Mongrel2 handler codec in src/mongrel2.rs: decoding an     *)
(* inbound envelope into a request (parse and its helpers), the request    *)
(* predicates, and the outbound encoders send / reply / reply_http.        *)
(*                                                                         *)
(* Bytes and strings are sequences of one-character strings; the alphabet  *)
(* is ASCII, where str::bytes and str::from_bytes do not change the        *)
(* sequence.                                                               *)
(***************************************************************************)
EXTENDS Integers, Sequences, FiniteSets, TLC

VARIABLES msg, req, ret, rep

vars == <<msg, req, ret, rep>>

-----------------------------------------------------------------------------
(* Characters and literals used by the source.                             *)

SP == " "
QUOTE == "\""
CR == "\r"
LF == "\n"

Digits == <<"0", "1", "2", "3", "4", "5", "6", "7", "8", "9">>

IsDigit(c) == \E d \in 1..10 : Digits[d] = c

DigitVal(c) == (CHOOSE d \in 1..10 : Digits[d] = c) - 1

L_METHOD == <<"M", "E", "T", "H", "O", "D">>
L_JSON == <<"J", "S", "O", "N">>
L_connection == <<"c", "o", "n", "n", "e", "c", "t", "i", "o", "n">>
L_close == <<"c", "l", "o", "s", "e">>
L_VERSION == <<"V", "E", "R", "S", "I", "O", "N">>
L_HTTP10 == <<"H", "T", "T", "P", "/", "1", ".", "0">>
L_HTTP11 == <<"H", "T", "T", "P", "/", "1", ".", "1">>
L_type == <<"t", "y", "p", "e">>
L_disconnect == <<"d", "i", "s", "c", "o", "n", "n", "e", "c", "t">>
L_ContentLength == <<"C", "o", "n", "t", "e", "n", "t", "-", "L", "e", "n", "g", "t", "h", ":", " ">>
L_CRLF == <<CR, LF>>

-----------------------------------------------------------------------------
(* Library helpers: vec::position_between, vec::slice, uint::to_str,       *)
(* str::connect, vec::connect, vec::concat.                                *)

\* Indices are 0-based as in the source; a sequence element i lives at i+1.
\* Returns the first index in [start, end) holding c, or -1 for none.
position_between(v, start, end, c) ==
    LET hits == {i \in start..(end - 1) : v[i + 1] = c}
    IN  IF hits = {} THEN -1
        ELSE CHOOSE i \in hits : \A j \in hits : i <= j

slice(v, start, end) == SubSeq(v, start + 1, end)

RECURSIVE uint_to_str(_)
uint_to_str(n) ==
    IF n < 10 THEN <<Digits[n + 1]>>
    ELSE uint_to_str(n \div 10) \o <<Digits[(n % 10) + 1]>>

RECURSIVE connect_with(_, _)
connect_with(parts, sep) ==
    IF parts = <<>> THEN <<>>
    ELSE IF Len(parts) = 1 THEN parts[1]
    ELSE parts[1] \o sep \o connect_with(Tail(parts), sep)

RECURSIVE concat(_)
concat(parts) ==
    IF parts = <<>> THEN <<>> ELSE parts[1] \o concat(Tail(parts))

-----------------------------------------------------------------------------
(* Typed-Value (tnetstring) codec, the external collaborator behind        *)
(* tnetstring::from_bytes and tnetstring::to_bytes: a decimal length, a    *)
(* colon, that many payload bytes and one tag character.                   *)

tns_str(b) == [tag |-> "str", v |-> b]
tns_vec(items) == [tag |-> "vec", v |-> items]
tns_map(m) == [tag |-> "map", v |-> m]
tns_scalar(kind, payload) == [tag |-> kind, v |-> payload]
tns_null == [tag |-> "null", v |-> <<>>]

TnsFail == [fail |-> TRUE, some |-> FALSE, val |-> tns_null, rest |-> <<>>]
TnsNone == [fail |-> FALSE, some |-> FALSE, val |-> tns_null, rest |-> <<>>]
TnsSome(t, rest) == [fail |-> FALSE, some |-> TRUE, val |-> t, rest |-> rest]

RECURSIVE DecVal(_)
DecVal(ds) ==
    IF ds = <<>> THEN 0
    ELSE 10 * DecVal(SubSeq(ds, 1, Len(ds) - 1)) + DigitVal(ds[Len(ds)])

\* Keys and values alternate in a dict payload; a key read twice keeps the
\* value read last, as a hash map insert does.
tns_pairs_to_map(items) ==
    LET n == Len(items) \div 2
        keys == {items[2 * k - 1].v : k \in 1..n}
        last(key) == CHOOSE k \in 1..n :
                        /\ items[2 * k - 1].v = key
                        /\ \A j \in 1..n : items[2 * j - 1].v = key => j <= k
    IN  [key \in keys |-> items[2 * last(key)]]

RECURSIVE tns_from_bytes(_)
RECURSIVE tns_items(_)

tns_items(payload) ==
    IF payload = <<>> THEN [fail |-> FALSE, items |-> <<>>]
    ELSE LET first == tns_from_bytes(payload)
         IN  IF first.fail \/ ~first.some THEN [fail |-> TRUE, items |-> <<>>]
             ELSE LET more == tns_items(first.rest)
                  IN  IF more.fail THEN more
                      ELSE [fail |-> FALSE, items |-> <<first.val>> \o more.items]

tns_from_bytes(data) ==
    IF data = <<>> THEN TnsNone
    ELSE
    LET colon == position_between(data, 0, Len(data), ":")
    IN  IF colon < 1 THEN TnsFail
        ELSE
        LET ds == slice(data, 0, colon)
        IN  IF \E i \in 1..Len(ds) : ~IsDigit(ds[i]) THEN TnsFail
            ELSE
            LET n == DecVal(ds)
            IN  IF colon + 1 + n + 1 > Len(data) THEN TnsFail
                ELSE
                LET payload == slice(data, colon + 1, colon + 1 + n)
                    tag == data[colon + 1 + n + 1]
                    rest == slice(data, colon + 1 + n + 1, Len(data))
                IN  CASE tag = "," -> TnsSome(tns_str(payload), rest)
                      [] tag = "#" -> TnsSome(tns_scalar("int", payload), rest)
                      [] tag = "^" -> TnsSome(tns_scalar("float", payload), rest)
                      [] tag = "!" -> TnsSome(tns_scalar("bool", payload), rest)
                      [] tag = "~" -> IF n = 0 THEN TnsSome(tns_null, rest) ELSE TnsFail
                      [] tag = "]" ->
                            LET r == tns_items(payload)
                            IN  IF r.fail THEN TnsFail
                                ELSE TnsSome(tns_vec(r.items), rest)
                      [] tag = "}" ->
                            LET r == tns_items(payload)
                            IN  IF r.fail \/ Len(r.items) % 2 # 0 THEN TnsFail
                                ELSE IF \E k \in 1..(Len(r.items) \div 2) :
                                            r.items[2 * k - 1].tag # "str"
                                     THEN TnsFail
                                ELSE TnsSome(tns_map(tns_pairs_to_map(r.items)), rest)
                      [] OTHER -> TnsFail

\* Encoding of the String variant, the only one send produces.
tns_to_bytes(t) == uint_to_str(Len(t.v)) \o <<":">> \o t.v \o <<",">>


-----------------------------------------------------------------------------
(* JSON collaborator behind json::from_str: values are null, boolean,      *)
(* number, string, list and dict.  The alphabet has no backslash, so       *)
(* strings carry no escapes; numbers are unsigned decimals.                *)

j_string(s) == [t |-> "string", v |-> s]
j_list(items) == [t |-> "list", v |-> items]
j_dict(m) == [t |-> "dict", v |-> m]
j_num(ds) == [t |-> "num", v |-> ds]
j_lit(kind, text) == [t |-> kind, v |-> text]

JFail == [ok |-> FALSE, val |-> j_lit("null", <<>>), next |-> 0]
JOk(val, next) == [ok |-> TRUE, val |-> val, next |-> next]

L_null == <<"n", "u", "l", "l">>
L_true == <<"t", "r", "u", "e">>
L_false == <<"f", "a", "l", "s", "e">>

RECURSIVE SkipWs(_, _)
SkipWs(s, i) == IF i <= Len(s) /\ s[i] = SP THEN SkipWs(s, i + 1) ELSE i

RECURSIVE DigitsEnd(_, _)
DigitsEnd(s, i) == IF i <= Len(s) /\ IsDigit(s[i]) THEN DigitsEnd(s, i + 1) ELSE i

HasAt(s, i, word) ==
    /\ i + Len(word) - 1 <= Len(s)
    /\ SubSeq(s, i, i + Len(word) - 1) = word

\* s[i] is an opening quote.
json_string_at(s, i) ==
    LET close == position_between(s, i, Len(s), QUOTE)
    IN  IF close < 0 THEN JFail
        ELSE JOk(j_string(slice(s, i, close)), close + 2)

json_pairs_to_map(pairs) ==
    LET keys == {pairs[k][1] : k \in 1..Len(pairs)}
        last(key) == CHOOSE k \in 1..Len(pairs) :
                        /\ pairs[k][1] = key
                        /\ \A j \in 1..Len(pairs) : pairs[j][1] = key => j <= k
    IN  [key \in keys |-> pairs[last(key)][2]]

RECURSIVE json_value(_, _)
RECURSIVE json_list_more(_, _, _)
RECURSIVE json_dict_more(_, _, _)

json_list_more(s, i, acc) ==
    LET v == json_value(s, i)
    IN  IF ~v.ok THEN JFail
        ELSE LET j == SkipWs(s, v.next)
             IN  IF j > Len(s) THEN JFail
                 ELSE IF s[j] = "," THEN json_list_more(s, j + 1, Append(acc, v.val))
                 ELSE IF s[j] = "]" THEN JOk(j_list(Append(acc, v.val)), j + 1)
                 ELSE JFail

json_dict_more(s, i, acc) ==
    LET k == SkipWs(s, i)
    IN  IF k > Len(s) \/ s[k] # QUOTE THEN JFail
        ELSE
        LET key == json_string_at(s, k)
        IN  IF ~key.ok THEN JFail
            ELSE
            LET c == SkipWs(s, key.next)
            IN  IF c > Len(s) \/ s[c] # ":" THEN JFail
                ELSE
                LET v == json_value(s, c + 1)
                IN  IF ~v.ok THEN JFail
                    ELSE
                    LET j == SkipWs(s, v.next)
                        pairs == Append(acc, <<key.val.v, v.val>>)
                    IN  IF j > Len(s) THEN JFail
                        ELSE IF s[j] = "," THEN json_dict_more(s, j + 1, pairs)
                        ELSE IF s[j] = "}" THEN JOk(j_dict(json_pairs_to_map(pairs)), j + 1)
                        ELSE JFail

json_value(s, i0) ==
    LET i == SkipWs(s, i0)
    IN  IF i > Len(s) THEN JFail
        ELSE CASE s[i] = QUOTE -> json_string_at(s, i)
               [] s[i] = "[" ->
                    LET j == SkipWs(s, i + 1)
                    IN  IF j <= Len(s) /\ s[j] = "]" THEN JOk(j_list(<<>>), j + 1)
                        ELSE json_list_more(s, j, <<>>)
               [] s[i] = "{" ->
                    LET j == SkipWs(s, i + 1)
                    IN  IF j <= Len(s) /\ s[j] = "}" THEN JOk(j_dict(<<>>), j + 1)
                        ELSE json_dict_more(s, j, <<>>)
               [] IsDigit(s[i]) ->
                    LET e == DigitsEnd(s, i)
                    IN  JOk(j_num(SubSeq(s, i, e - 1)), e)
               [] HasAt(s, i, L_null) -> JOk(j_lit("null", L_null), i + 4)
               [] HasAt(s, i, L_true) -> JOk(j_lit("boolean", L_true), i + 4)
               [] HasAt(s, i, L_false) -> JOk(j_lit("boolean", L_false), i + 5)
               [] OTHER -> JFail

\* json::from_str: one value, then nothing but whitespace.
json_from_str(s) ==
    LET v == json_value(s, 1)
    IN  IF v.ok /\ SkipWs(s, v.next) > Len(s) THEN v ELSE JFail


-----------------------------------------------------------------------------
(* Envelope decoder: parse and its helpers.  A failing task (fail "...")   *)
(* is a result whose field fail holds the message; "" means no failure.    *)

NoHeaders == [k \in {} |-> <<>>]

header_insert(headers, key, values) ==
    [k \in (DOMAIN headers) \cup {key} |-> IF k = key THEN values ELSE headers[k]]

header_find(headers, key) ==
    IF key \in DOMAIN headers THEN headers[key] ELSE <<>>

\* List elements that are not strings dropped instead of refused.
tns_header_values_lenient(value) ==
    CASE value.tag = "str" -> [fail |-> "", vs |-> <<value.v>>]
      [] value.tag = "vec" ->
            [fail |-> "",
             vs |-> LET strs == SelectSeq(value.v, LAMBDA e : e.tag = "str")
                    IN  [i \in 1..Len(strs) |-> strs[i].v]]
      [] OTHER -> [fail |-> "header value is not string", vs |-> <<>>]

\* The value of one Typed-Value dict entry as a list of strings.
tns_header_values(value) ==
    CASE value.tag = "str" -> [fail |-> "", vs |-> <<value.v>>]
      [] value.tag = "vec" ->
            IF \E i \in 1..Len(value.v) : value.v[i].tag # "str"
            THEN [fail |-> "header value is not a string", vs |-> <<>>]
            ELSE [fail |-> "", vs |-> [i \in 1..Len(value.v) |-> value.v[i].v]]
      [] OTHER -> [fail |-> "header value is not string", vs |-> <<>>]

\* The value of one JSON dict entry as a list of strings.
json_header_values(value) ==
    CASE value.t = "string" -> [fail |-> "", vs |-> <<value.v>>]
      [] value.t = "list" ->
            IF \E i \in 1..Len(value.v) : value.v[i].t # "string"
            THEN [fail |-> "header value is not a string", vs |-> <<>>]
            ELSE [fail |-> "", vs |-> [i \in 1..Len(value.v) |-> value.v[i].v]]
      [] OTHER -> [fail |-> "header value is not string", vs |-> <<>>]

\* for map.each { ... headers.insert(key, values + vs) }: the entries are
\* visited one by one, in the map's iteration order.
RECURSIVE each_header(_, _, _, _)
each_header(m, todo, headers, json) ==
    IF todo = {} THEN [fail |-> "", headers |-> headers]
    ELSE LET key == CHOOSE k \in todo : TRUE
             values == header_find(headers, key)
             r == IF json THEN json_header_values(m[key])
                  ELSE tns_header_values(m[key])
         IN  IF r.fail # "" THEN [fail |-> r.fail, headers |-> NoHeaders]
             ELSE each_header(m, todo \ {key},
                              header_insert(headers, key, values \o r.vs), json)

headers_from_json(j) ==
    IF ~j.ok THEN [fail |-> "invalid JSON string", headers |-> NoHeaders]
    ELSE IF j.val.t = "dict"
         THEN each_header(j.val.v, DOMAIN j.val.v, NoHeaders, TRUE)
    ELSE [fail |-> "header is not a dictionary", headers |-> NoHeaders]

parse_headers(tns) ==
    CASE tns.tag = "map" -> each_header(tns.v, DOMAIN tns.v, NoHeaders, FALSE)
      [] tns.tag = "str" -> headers_from_json(json_from_str(tns.v))
      [] OTHER -> [fail |-> "invalid header", headers |-> NoHeaders]

\* A body of any variant let through.
parse_body_any(tns) == [fail |-> "", body |-> tns.v]

parse_body(tns) ==
    IF tns.tag = "str" THEN [fail |-> "", body |-> tns.v]
    ELSE [fail |-> "invalid body", body |-> <<>>]

TokFail(m) == [fail |-> m, next |-> 0, tok |-> <<>>]

parse_uuid(m, start, end) ==
    LET i == position_between(m, start, end, SP)
    IN  IF i < 0 THEN TokFail("invalid sender uuid")
        ELSE [fail |-> "", next |-> i + 1, tok |-> slice(m, 0, i)]

\* parse_id slicing from the start of the message, as parse_uuid does.
parse_id_from_zero(m, start, end) ==
    LET i == position_between(m, start, end, SP)
    IN  IF i < 0 THEN TokFail("invalid connection id")
        ELSE [fail |-> "", next |-> i + 1, tok |-> slice(m, 0, i)]

parse_id(m, start, end) ==
    LET i == position_between(m, start, end, SP)
    IN  IF i < 0 THEN TokFail("invalid connection id")
        ELSE [fail |-> "", next |-> i + 1, tok |-> slice(m, start, i)]

parse_path(m, start, end) ==
    LET i == position_between(m, start, end, SP)
    IN  IF i < 0 THEN TokFail("invalid path")
        ELSE [fail |-> "", next |-> i + 1, tok |-> slice(m, start, i)]

RestFail(m) == [fail |-> m, headers |-> NoHeaders, body |-> <<>>]

\* The steps of parse_rest, each handed what the step before it produced.
rest_after_body(headers, body) ==
    IF body.fail # "" THEN RestFail(body.fail)
    ELSE [fail |-> "", headers |-> headers.headers, body |-> body.body]

rest_after_second(headers, b) ==
    IF b.fail THEN RestFail("tnetstring")
    ELSE IF ~b.some THEN RestFail("empty body")
    ELSE rest_after_body(headers, parse_body(b.val))

rest_after_headers(h, headers) ==
    IF headers.fail # "" THEN RestFail(headers.fail)
    ELSE rest_after_second(headers, tns_from_bytes(h.rest))

rest_after_first(h) ==
    IF h.fail THEN RestFail("tnetstring")
    ELSE IF ~h.some THEN RestFail("empty headers")
    ELSE rest_after_headers(h, parse_headers(h.val))

parse_rest(m, start, end) == rest_after_first(tns_from_bytes(slice(m, start, end)))

NoJson == [some |-> FALSE, map |-> NoHeaders]

NoRequest ==
    [uuid |-> <<>>, id |-> <<>>, path |-> <<>>, headers |-> NoHeaders,
     body |-> <<>>, json_body |-> NoJson]

ParseFail(m) == [state |-> "failed", fail |-> m, r |-> NoRequest]

json_body_of(j) ==
    IF ~j.ok THEN [fail |-> "invalid JSON string", json_body |-> NoJson]
    ELSE IF j.val.t = "dict"
         THEN [fail |-> "", json_body |-> [some |-> TRUE, map |-> j.val.v]]
    ELSE [fail |-> "json body is not a dictionary", json_body |-> NoJson]

\* The json body taken whenever the first METHOD value is "JSON".
parse_json_body_first_value(headers, body) ==
    IF /\ L_METHOD \in DOMAIN headers
       /\ headers[L_METHOD] # <<>>
       /\ headers[L_METHOD][1] = L_JSON
    THEN json_body_of(json_from_str(body))
    ELSE [fail |-> "", json_body |-> NoJson]

\* Extract out the json body if we have it.
parse_json_body(headers, body) ==
    IF L_METHOD \in DOMAIN headers /\ headers[L_METHOD] = <<L_JSON>>
    THEN json_body_of(json_from_str(body))
    ELSE [fail |-> "", json_body |-> NoJson]

\* The steps of parse, each handed what the steps before it produced.
parse_after_json(u, i, p, rest, j) ==
    IF j.fail # "" THEN ParseFail(j.fail)
    ELSE [state |-> "ok", fail |-> "",
          r |-> [uuid |-> u.tok, id |-> i.tok, path |-> p.tok,
                 headers |-> rest.headers, body |-> rest.body,
                 json_body |-> j.json_body]]

parse_after_rest(u, i, p, rest) ==
    IF rest.fail # "" THEN ParseFail(rest.fail)
    ELSE parse_after_json(u, i, p, rest, parse_json_body(rest.headers, rest.body))

parse_after_path(m, u, i, p) ==
    IF p.fail # "" THEN ParseFail(p.fail)
    ELSE parse_after_rest(u, i, p, parse_rest(m, p.next, Len(m)))

parse_after_id(m, u, i) ==
    IF i.fail # "" THEN ParseFail(i.fail)
    ELSE parse_after_path(m, u, i, parse_path(m, i.next, Len(m)))

parse_after_uuid(m, u) ==
    IF u.fail # "" THEN ParseFail(u.fail)
    ELSE parse_after_id(m, u, parse_id(m, u.next, Len(m)))

parse(m) == parse_after_uuid(m, parse_uuid(m, 0, Len(m)))

-----------------------------------------------------------------------------
(* Request predicates.                                                     *)

\* Any string under "type" counted as a disconnect.
is_disconnect_any_type(r) ==
    IF ~r.json_body.some THEN FALSE
    ELSE LET map == r.json_body.map
         IN  L_type \in DOMAIN map /\ map[L_type].t = "string"

is_disconnect(r) ==
    IF ~r.json_body.some THEN FALSE
    ELSE LET map == r.json_body.map
         IN  IF L_type \in DOMAIN map /\ map[L_type].t = "string"
             THEN map[L_type].v = L_disconnect
             ELSE FALSE

\* A "connection" header that decides alone whenever it is present.
should_close_connection_wins(r) ==
    IF L_connection \in DOMAIN r.headers
    THEN r.headers[L_connection] = <<L_close>>
    ELSE IF L_VERSION \in DOMAIN r.headers
         THEN r.headers[L_VERSION] = <<L_HTTP10>>
         ELSE FALSE

should_close(r) ==
    IF L_connection \in DOMAIN r.headers /\ r.headers[L_connection] = <<L_close>>
    THEN TRUE
    ELSE IF L_VERSION \in DOMAIN r.headers
         THEN r.headers[L_VERSION] = <<L_HTTP10>>
         ELSE FALSE

-----------------------------------------------------------------------------
(* Reply encoder.                                                          *)

\* The body framed as a Typed-Value, as it is on the inbound side.
send_msg_framed_body(uuid, id, body) ==
    LET ids == connect_with(id, <<SP>>)
    IN  connect_with(<<uuid, tns_to_bytes(tns_str(ids)), tns_to_bytes(tns_str(body))>>,
                     <<SP>>)

send_msg(uuid, id, body) ==
    LET ids == connect_with(id, <<SP>>)
    IN  connect_with(<<uuid, tns_to_bytes(tns_str(ids)), body>>, <<SP>>)

reply_msg(r, body) == send_msg(r.uuid, <<r.id>>, body)

L_HTTP11_ == L_HTTP11 \o <<SP>>

header_lines(key, values) ==
    concat([i \in 1..Len(values) |-> key \o <<":", SP>> \o values[i] \o L_CRLF])

\* Content-Length written after the caller's headers.
reply_http_payload_length_last(code, status, headers, order, body) ==
    L_HTTP11_ \o uint_to_str(code) \o <<SP>>
        \o status
        \o L_CRLF
        \o concat([i \in 1..Len(order) |-> header_lines(order[i], headers[order[i]])])
        \o L_ContentLength
        \o uint_to_str(Len(body))
        \o L_CRLF
        \o L_CRLF
        \o body

\* order is the sequence of keys as headers.each visits them.
reply_http_payload(code, status, headers, order, body) ==
    L_HTTP11_ \o uint_to_str(code) \o <<SP>>
        \o status
        \o L_CRLF
        \o L_ContentLength
        \o uint_to_str(Len(body))
        \o L_CRLF
        \o concat([i \in 1..Len(order) |-> header_lines(order[i], headers[order[i]])])
        \o L_CRLF
        \o body

reply_http_msg(r, code, status, headers, order, body) ==
    reply_msg(r, reply_http_payload(code, status, headers, order, body))


-----------------------------------------------------------------------------
(* The front end: the envelopes the transport may deliver.  Frame writes   *)
(* one Typed-Value; JT_* write JSON text.                                  *)

Frame(payload, tag) == uint_to_str(Len(payload)) \o <<":">> \o payload \o <<tag>>
W_str(s) == Frame(s, ",")
W_list(items) == Frame(concat(items), "]")
W_dict(pairs) ==
    Frame(concat([i \in 1..Len(pairs) |-> W_str(pairs[i][1]) \o pairs[i][2]]), "}")
W_int(ds) == Frame(ds, "#")

JT_str(s) == <<QUOTE>> \o s \o <<QUOTE>>
JT_list(texts) == <<"[">> \o connect_with(texts, <<",">>) \o <<"]">>
JT_obj(pairs) ==
    <<"{">>
        \o connect_with([i \in 1..Len(pairs) |->
                            JT_str(pairs[i][1]) \o <<":">> \o pairs[i][2]], <<",">>)
        \o <<"}">>

Envelope(uuid, id, path, h, b, trail) ==
    uuid \o <<SP>> \o id \o <<SP>> \o path \o <<SP>> \o h \o b \o trail

W_foo == <<"f", "o", "o">>
W_bar == <<"b", "a", "r">>
W_x == <<"x">>
W_y == <<"y">>
W_hi == <<"h", "i">>
W_GET == <<"G", "E", "T">>
W_keep == <<"k", "e", "e", "p">>
W_u == <<"u">>
W_5 == <<"5">>
W_6 == <<"6">>
W_root == <<"/">>
W_hello == <<"h", "e", "l", "l", "o", " ", "w", "o", "r", "l", "d">>

\* Header payloads that parse_headers accepts.
H_json_foo == W_str(JT_obj(<< <<W_foo, JT_str(W_bar)>> >>))
H_dict_foo == W_dict(<< <<W_foo, W_str(W_bar)>> >>)
H_dict_list == W_dict(<< <<W_foo, W_list(<<W_str(W_x), W_str(W_y)>>)>> >>)
H_json_list == W_str(JT_obj(<< <<W_foo, JT_list(<<JT_str(W_x), JT_str(W_y)>>)>> >>))
H_dict_empty_list == W_dict(<< <<W_foo, W_list(<<>>)>> >>)
H_json_empty_list == W_str(JT_obj(<< <<W_foo, JT_list(<<>>)>> >>))
H_dict_none == W_dict(<<>>)
H_json_none == W_str(JT_obj(<<>>))
H_dict_two == W_dict(<< <<W_foo, W_str(W_bar)>>, <<W_x, W_list(<<W_str(W_y), W_str(W_x)>>)>> >>)
H_dict_dup == W_dict(<< <<W_foo, W_str(W_x)>>, <<W_foo, W_str(W_y)>> >>)
H_json_dup == W_str(JT_obj(<< <<W_foo, JT_str(W_x)>>, <<W_foo, JT_str(W_y)>> >>))

\* Header payloads that parse_headers rejects.
H_dict_int == W_dict(<< <<W_foo, W_int(<<"1">>)>> >>)
H_dict_list_int == W_dict(<< <<W_foo, W_list(<<W_str(W_x), W_int(<<"1">>)>>)>> >>)
H_dict_dict == W_dict(<< <<W_foo, W_dict(<<>>)>> >>)
H_json_num == W_str(JT_obj(<< <<W_foo, <<"1">> >> >>))
H_json_list_num == W_str(JT_obj(<< <<W_foo, JT_list(<<JT_str(W_x), <<"1">> >>)>> >>))
H_json_null == W_str(JT_obj(<< <<W_foo, L_null>> >>))
H_json_array == W_str(JT_list(<<JT_str(W_x)>>))
H_json_bad == W_str(<<"{", QUOTE>>)
H_list == W_list(<<W_str(W_x)>>)
H_int == W_int(<<"7">>)
H_nulltag == Frame(<<>>, "~")

HeaderShapes ==
    {H_json_foo, H_dict_foo, H_dict_list, H_json_list, H_dict_empty_list,
     H_json_empty_list, H_dict_none, H_json_none, H_dict_two, H_dict_dup,
     H_json_dup, H_dict_int, H_dict_list_int, H_dict_dict, H_json_num,
     H_json_list_num, H_json_null, H_json_array, H_json_bad, H_list, H_int,
     H_nulltag}

\* METHOD headers.
H_method_json == W_dict(<< <<L_METHOD, W_str(L_JSON)>> >>)
H_method_json_text == W_str(JT_obj(<< <<L_METHOD, JT_str(L_JSON)>> >>))
H_method_json_list == W_dict(<< <<L_METHOD, W_list(<<W_str(L_JSON)>>)>> >>)
H_method_json_twice == W_dict(<< <<L_METHOD, W_list(<<W_str(L_JSON), W_str(L_JSON)>>)>> >>)
H_method_get == W_dict(<< <<L_METHOD, W_str(W_GET)>> >>)

MethodHeaders ==
    {H_method_json, H_method_json_text, H_method_json_list, H_method_json_twice,
     H_method_get, H_dict_foo}

\* Bodies.
B_hi == W_str(W_hi)
B_empty == W_str(<<>>)
B_disconnect == W_str(JT_obj(<< <<L_type, JT_str(L_disconnect)>> >>))
B_type_x == W_str(JT_obj(<< <<L_type, JT_str(W_x)>> >>))
B_type_num == W_str(JT_obj(<< <<L_type, <<"1">> >> >>))
B_type_list == W_str(JT_obj(<< <<L_type, JT_list(<<JT_str(L_disconnect)>>)>> >>))
B_no_type == W_str(JT_obj(<< <<W_foo, JT_str(L_disconnect)>> >>))
B_json_array == W_str(JT_list(<<JT_str(W_x)>>))
B_json_string == W_str(JT_str(L_disconnect))
B_json_bad == W_str(<<"{", QUOTE>>)

JsonBodies ==
    {B_hi, B_empty, B_disconnect, B_type_x, B_type_num, B_type_list, B_no_type,
     B_json_array, B_json_string, B_json_bad}

\* Second payloads of any shape, and what may follow them.
BodyShapes ==
    {B_hi, B_empty, W_list(<<W_str(W_hi)>>), W_int(<<"7">>), W_dict(<<>>),
     Frame(<<>>, "~"), <<>>, <<"5", ":", "h", "i", ",">>, <<"2", ":", "h", "i">>,
     <<"2", ":", "h", "i", "?">>, <<"h", "i">>}

Trailers == {<<>>, <<"x">>, <<SP>>, B_hi}

\* connection / VERSION headers.
CloseEntries ==
    {<<>>,
     << <<L_connection, W_str(L_close)>> >>,
     << <<L_connection, W_str(W_keep)>> >>,
     << <<L_connection, W_list(<<W_str(L_close), W_str(L_close)>>)>> >>,
     << <<L_connection, W_list(<<>>)>> >>}

VersionEntries ==
    {<<>>,
     << <<L_VERSION, W_str(L_HTTP10)>> >>,
     << <<L_VERSION, W_str(L_HTTP11)>> >>,
     << <<L_VERSION, W_list(<<W_str(L_HTTP10), W_str(L_HTTP10)>>)>> >>}

TokenMsgs ==
    {Envelope(u, i, p, H_json_foo, B_hi, t) :
        u \in {<<>>, W_u}, i \in {<<>>, W_5}, p \in {<<>>, W_root}, t \in {<<>>, <<"x">>}}

HeaderMsgs == {Envelope(W_u, W_5, W_root, h, B_hi, <<>>) : h \in HeaderShapes}

JsonMsgs == {Envelope(W_u, W_5, W_root, h, b, <<>>) : h \in MethodHeaders, b \in JsonBodies}

BodyMsgs == {Envelope(W_u, W_5, W_root, H_dict_foo, b, t) : b \in BodyShapes, t \in Trailers}

CloseMsgs ==
    {Envelope(W_u, W_5, W_root, W_dict(c \o v), B_hi, <<>>) :
        c \in CloseEntries, v \in VersionEntries}

\* The message of tests::test_request_parse, and envelopes cut short.
TestMsg ==
    <<"a", "b", "C", "D", "-", "1", "2", "3", SP, "5", "6", SP, "/", SP>>
        \o <<"1", "3", ":">> \o JT_obj(<< <<W_foo, JT_str(W_bar)>> >>) \o <<",">>
        \o <<"1", "1", ":">> \o W_hello \o <<",">>

ShortMsgs ==
    {<<>>, W_u, W_u \o <<SP>>, W_u \o <<SP>> \o W_5, W_u \o <<SP>> \o W_5 \o <<SP>>,
     W_u \o <<SP>> \o W_5 \o <<SP>> \o W_root,
     W_u \o <<SP>> \o W_5 \o <<SP>> \o W_root \o <<SP>>,
     <<SP, SP, SP>>, <<SP, SP, SP>> \o H_dict_foo \o B_hi}

Messages ==
    TokenMsgs \cup HeaderMsgs \cup JsonMsgs \cup BodyMsgs \cup CloseMsgs
        \cup ShortMsgs \cup {TestMsg}

\* parse(m) of every envelope the transport may deliver.
parsed == [m \in Messages |-> parse(m)]


-----------------------------------------------------------------------------
(* The connection: one handler task that receives, asks the request        *)
(* predicates and replies.  rep is the outbound socket: how many messages  *)
(* it was handed, the last of them, and the call that produced it.         *)

MaxSent == 2

W_OK == <<"O", "K">>
W_NotFound == <<"N", "o", "t", " ", "F", "o", "u", "n", "d">>

SendUuids == {W_u, <<"a", "b">>}
SendIds == {<<>>, <<W_5>>, <<W_5, W_6>>}
SendBodies == {<<>>, W_hi}

HttpCases ==
    {[code |-> 200, status |-> W_OK, headers |-> NoHeaders, body |-> <<>>],
     [code |-> 200, status |-> W_OK, headers |-> (W_foo :> <<W_bar>>), body |-> W_hi],
     [code |-> 404, status |-> W_NotFound, headers |-> (W_foo :> <<W_x, W_y>>),
      body |-> W_hello],
     [code |-> 200, status |-> W_OK,
      headers |-> (W_foo :> <<W_bar>>) @@ (W_x :> <<W_y, W_x>>), body |-> W_hi],
     [code |-> 404, status |-> W_NotFound, headers |-> (W_foo :> <<>>), body |-> <<>>]}

\* The orders in which headers.each may visit the keys.
Orders(headers) ==
    LET n == Cardinality(DOMAIN headers)
    IN  {o \in [1..n -> DOMAIN headers] : \A i, j \in 1..n : o[i] = o[j] => i = j}

NoCall ==
    [op |-> "none", uuid |-> <<>>, id |-> <<>>, body |-> <<>>, code |-> 0,
     status |-> <<>>, headers |-> NoHeaders, order |-> <<>>]

Init ==
    /\ msg = <<>>
    /\ req = [state |-> "none", fail |-> "", r |-> NoRequest]
    /\ ret = [op |-> "none", val |-> FALSE]
    /\ rep = [count |-> 0, last |-> <<>>, call |-> NoCall]

\* A failed task runs no further call.
Alive == req.state # "failed"

\* recv(): the transport delivers m and parse(m) is the request; a failing
\* parse ends the task.
Recv ==
    /\ Alive
    /\ \E m \in Messages :
          /\ msg' = m
          /\ req' = parsed[m]
    /\ ret' = [op |-> "none", val |-> FALSE]
    /\ UNCHANGED rep

IsDisconnect ==
    /\ Alive
    /\ req.state = "ok"
    /\ ret' = [op |-> "is_disconnect", val |-> is_disconnect(req.r)]
    /\ UNCHANGED <<msg, req, rep>>

ShouldClose ==
    /\ Alive
    /\ req.state = "ok"
    /\ ret' = [op |-> "should_close", val |-> should_close(req.r)]
    /\ UNCHANGED <<msg, req, rep>>

Send ==
    /\ Alive
    /\ rep.count < MaxSent
    /\ \E uuid \in SendUuids, id \in SendIds, body \in SendBodies :
          rep' = [count |-> rep.count + 1,
                  last |-> send_msg(uuid, id, body),
                  call |-> [NoCall EXCEPT !.op = "send", !.uuid = uuid,
                                          !.id = id, !.body = body]]
    /\ UNCHANGED <<msg, req, ret>>

Reply ==
    /\ Alive
    /\ req.state = "ok"
    /\ rep.count < MaxSent
    /\ \E body \in SendBodies :
          rep' = [count |-> rep.count + 1,
                  last |-> reply_msg(req.r, body),
                  call |-> [NoCall EXCEPT !.op = "reply", !.body = body]]
    /\ UNCHANGED <<msg, req, ret>>

ReplyHttp ==
    /\ Alive
    /\ req.state = "ok"
    /\ rep.count < MaxSent
    /\ \E c \in HttpCases :
          \E order \in Orders(c.headers) :
              rep' = [count |-> rep.count + 1,
                      last |-> reply_http_msg(req.r, c.code, c.status, c.headers,
                                              order, c.body),
                      call |-> [NoCall EXCEPT !.op = "reply_http", !.body = c.body,
                                              !.code = c.code, !.status = c.status,
                                              !.headers = c.headers, !.order = order]]
    /\ UNCHANGED <<msg, req, ret>>

Next ==
    \/ Recv
    \/ IsDisconnect
    \/ ShouldClose
    \/ Send
    \/ Reply
    \/ ReplyHttp

Spec == Init /\ [][Next]_vars


-----------------------------------------------------------------------------
(* Properties.                                                             *)

Spaces(m) == {i \in 1..Len(m) : m[i] = SP}
MinOf(S) == CHOOSE i \in S : \A j \in S : i <= j
Sp1(m) == MinOf(Spaces(m))
Sp2(m) == MinOf({i \in Spaces(m) : i > Sp1(m)})
Sp3(m) == MinOf({i \in Spaces(m) : i > Sp2(m)})
\* The bytes after the third space.
Payload(m) == SubSeq(m, Sp3(m) + 1, Len(m))
FirstValue(m) == tns_from_bytes(Payload(m))
SecondValue(m) == tns_from_bytes(FirstValue(m).rest)
HasSpace(tok) == \E i \in 1..Len(tok) : tok[i] = SP
Accepted == req.state = "ok"
Plain(h, b) == Envelope(W_u, W_5, W_root, h, b, <<>>)

\* C1: in every accepted message the fields are taken left to right: uuid
\* is the bytes before the first space, id the bytes between the first and
\* the second space, path the bytes between the second and the third, the
\* headers and the body are decoded from the bytes after the third space,
\* and no token holds a space.
C1_LeftToRight ==
    Accepted =>
        /\ Cardinality(Spaces(msg)) >= 3
        /\ req.r.uuid = SubSeq(msg, 1, Sp1(msg) - 1)
        /\ req.r.id = SubSeq(msg, Sp1(msg) + 1, Sp2(msg) - 1)
        /\ req.r.path = SubSeq(msg, Sp2(msg) + 1, Sp3(msg) - 1)
        /\ ~HasSpace(req.r.uuid) /\ ~HasSpace(req.r.id) /\ ~HasSpace(req.r.path)
        /\ FirstValue(msg).some /\ SecondValue(msg).some
        /\ req.r.headers = parse_headers(FirstValue(msg).val).headers
        /\ req.r.body = SecondValue(msg).val.v

C1_Witness ==
    /\ Accepted
    /\ msg = TestMsg
    /\ req.r.uuid = <<"a", "b", "C", "D", "-", "1", "2", "3">>
    /\ req.r.id = <<"5", "6">>
    /\ req.r.path = W_root
    /\ req.r.body = W_hello

JsonMethod(headers) == L_METHOD \in DOMAIN headers /\ headers[L_METHOD] = <<L_JSON>>

JsonMethodHeaders == {H_method_json, H_method_json_text, H_method_json_list}
ObjectBodies ==
    {<<B_disconnect, L_type :> j_string(L_disconnect)>>,
     <<B_type_x, L_type :> j_string(W_x)>>,
     <<B_type_num, L_type :> j_num(<<"1">>)>>,
     <<B_type_list, L_type :> j_list(<<j_string(L_disconnect)>>)>>,
     <<B_no_type, W_foo :> j_string(L_disconnect)>>}
NonObjectBodies == {B_hi, B_empty, B_json_array, B_json_string, B_json_bad}

\* C2: json_body is present exactly when headers["METHOD"] = ["JSON"], and
\* then it is the JSON object written in the body; with METHOD = ["JSON"]
\* a body that is not JSON, or is JSON but not an object, makes parse fail.
C2_JsonBody ==
    /\ Accepted => (req.r.json_body.some <=> JsonMethod(req.r.headers))
    /\ \A h \in JsonMethodHeaders :
          /\ \A ob \in ObjectBodies :
                msg = Plain(h, ob[1]) =>
                    /\ Accepted
                    /\ req.r.json_body.some
                    /\ req.r.json_body.map = ob[2]
          /\ \A b \in NonObjectBodies : msg = Plain(h, b) => req.state = "failed"
    /\ \A h \in MethodHeaders \ JsonMethodHeaders :
          \A b \in JsonBodies : msg = Plain(h, b) => Accepted /\ ~req.r.json_body.some

C2_Witness ==
    /\ Accepted
    /\ msg = Plain(H_method_json_text, B_disconnect)
    /\ req.r.json_body.some
    /\ DOMAIN req.r.json_body.map = {L_type}

\* C3: should_close() is true exactly when "connection" is ["close"] or
\* "VERSION" is ["HTTP/1.0"]; a "connection" header with another value does
\* not suppress the VERSION check.
C3_ShouldClose ==
    ret.op = "should_close" =>
        LET h == req.r.headers
            conn == L_connection \in DOMAIN h /\ h[L_connection] = <<L_close>>
            version == L_VERSION \in DOMAIN h /\ h[L_VERSION] = <<L_HTTP10>>
        IN  ret.val <=> (conn \/ version)

C3_Witness ==
    /\ ret.op = "should_close"
    /\ ret.val
    /\ L_connection \in DOMAIN req.r.headers
    /\ req.r.headers[L_connection] = <<W_keep>>
    /\ req.r.headers[L_VERSION] = <<L_HTTP10>>

\* C4: is_disconnect() is true exactly when json_body is present and maps
\* "type" to the JSON string "disconnect".
C4_IsDisconnect ==
    ret.op = "is_disconnect" =>
        LET j == req.r.json_body
        IN  ret.val <=>
                /\ j.some
                /\ L_type \in DOMAIN j.map
                /\ j.map[L_type].t = "string"
                /\ j.map[L_type].v = L_disconnect

C4_Witness ==
    /\ ret.op = "is_disconnect"
    /\ ret.val
    /\ req.r.json_body.some

RECURSIVE JoinIds(_)
JoinIds(ids) ==
    IF Len(ids) = 0 THEN <<>>
    ELSE IF Len(ids) = 1 THEN ids[1]
    ELSE JoinIds(SubSeq(ids, 1, Len(ids) - 1)) \o <<SP>> \o ids[Len(ids)]

\* uuid, a space, the joined ids as one Typed-Value String, a space, the
\* body as it is.
Outbound(uuid, ids, body) ==
    uuid \o <<SP>> \o Frame(JoinIds(ids), ",") \o <<SP>> \o body

\* C5: every send hands the transport one message, uuid SPACE
\* TYPEDVALUE(ids joined with spaces) SPACE body, the body unframed; reply
\* is send with the request's uuid and the one id req.id.
C5_SendFormat ==
    [][rep' # rep =>
          /\ rep'.count = rep.count + 1
          /\ rep'.call.op = "send" =>
                rep'.last = Outbound(rep'.call.uuid, rep'.call.id, rep'.call.body)
          /\ rep'.call.op = "reply" =>
                rep'.last = Outbound(req.r.uuid, <<req.r.id>>, rep'.call.body)]_vars

C5_Witness ==
    /\ rep.call.op = "send"
    /\ Len(rep.call.id) = 2
    /\ rep.call.body = W_hi
    /\ rep.last = <<"u", SP, "3", ":", "5", SP, "6", ",", SP, "h", "i">>

RECURSIVE ValueLines(_, _)
ValueLines(key, values) ==
    IF values = <<>> THEN <<>>
    ELSE key \o <<":", SP>> \o Head(values) \o <<CR, LF>> \o ValueLines(key, Tail(values))

RECURSIVE KeyLines(_, _)
KeyLines(order, headers) ==
    IF order = <<>> THEN <<>>
    ELSE ValueLines(Head(order), headers[Head(order)]) \o KeyLines(Tail(order), headers)

HttpPayload(c) ==
    <<"H", "T", "T", "P", "/", "1", ".", "1", SP>>
        \o uint_to_str(c.code) \o <<SP>> \o c.status \o <<CR, LF>>
        \o <<"C", "o", "n", "t", "e", "n", "t", "-", "L", "e", "n", "g", "t", "h", ":", SP>>
        \o uint_to_str(Len(c.body)) \o <<CR, LF>>
        \o KeyLines(c.order, c.headers)
        \o <<CR, LF>>
        \o c.body

\* C6: reply_http sends, to the request's uuid and the one id req.id, the
\* status line, then Content-Length with the body's length, then one line
\* per value of each header key (each key once, its values in list order),
\* then a blank line, then the body; nothing else.
C6_HttpReply ==
    [][(rep' # rep /\ rep'.call.op = "reply_http") =>
          LET c == rep'.call
          IN  /\ Len(c.order) = Cardinality(DOMAIN c.headers)
              /\ {c.order[i] : i \in 1..Len(c.order)} = DOMAIN c.headers
              /\ rep'.last = Outbound(req.r.uuid, <<req.r.id>>, HttpPayload(c))]_vars

C6_Witness ==
    /\ rep.call.op = "reply_http"
    /\ Cardinality(DOMAIN rep.call.headers) = 2
    /\ rep.call.order[1] = W_x
    /\ rep.call.body = W_hi


ListedValues(values, elems) ==
    /\ Len(values) = Len(elems)
    /\ \A i \in 1..Len(elems) : values[i] = elems[i].v

AcceptedShapes ==
    {<<H_dict_foo, W_foo :> <<W_bar>> >>,
     <<H_json_foo, W_foo :> <<W_bar>> >>,
     <<H_dict_list, W_foo :> <<W_x, W_y>> >>,
     <<H_json_list, W_foo :> <<W_x, W_y>> >>,
     <<H_dict_two, (W_foo :> <<W_bar>>) @@ (W_x :> <<W_y, W_x>>)>>}

RejectedShapes ==
    {H_dict_int, H_dict_list_int, H_dict_dict, H_json_num, H_json_list_num,
     H_json_null, H_json_array, H_json_bad, H_list, H_int, H_nulltag}

\* C7: the headers are taken from a Typed-Value Dict or from a Typed-Value
\* String holding a JSON object; a string value becomes a one-element
\* list, a list of strings that list in the same order; any other value, a
\* list with a non-string element, JSON text that is not an object, or
\* headers of another variant make parse fail.
C7_HeaderShapes ==
    /\ Accepted =>
          LET h == FirstValue(msg).val
              hs == req.r.headers
          IN  CASE h.tag = "map" ->
                      /\ DOMAIN hs = DOMAIN h.v
                      /\ \A k \in DOMAIN hs :
                            \/ h.v[k].tag = "str" /\ hs[k] = <<h.v[k].v>>
                            \/ /\ h.v[k].tag = "vec"
                               /\ \A i \in 1..Len(h.v[k].v) : h.v[k].v[i].tag = "str"
                               /\ ListedValues(hs[k], h.v[k].v)
                [] h.tag = "str" ->
                      LET j == json_from_str(h.v)
                      IN  /\ j.ok
                          /\ j.val.t = "dict"
                          /\ DOMAIN hs = DOMAIN j.val.v
                          /\ \A k \in DOMAIN hs :
                                LET x == j.val.v[k]
                                IN  \/ x.t = "string" /\ hs[k] = <<x.v>>
                                    \/ /\ x.t = "list"
                                       /\ \A i \in 1..Len(x.v) : x.v[i].t = "string"
                                       /\ ListedValues(hs[k], x.v)
                [] OTHER -> FALSE
    /\ \A a \in AcceptedShapes :
          msg = Plain(a[1], B_hi) => Accepted /\ req.r.headers = a[2]
    /\ \A h \in RejectedShapes : msg = Plain(h, B_hi) => req.state = "failed"

C7_Witness ==
    /\ Accepted
    /\ msg = Plain(H_json_list, B_hi)
    /\ req.r.headers[W_foo] = <<W_x, W_y>>

WithBody(b, t) == Envelope(W_u, W_5, W_root, H_dict_foo, b, t)

\* C8 as claimed: a message is accepted only if the bytes after the path
\* are exactly two Typed-Values, headers and a String body, with nothing
\* left over; trailing bytes make parse fail.
C8_NothingLeftOver ==
    /\ Accepted =>
          /\ FirstValue(msg).some
          /\ SecondValue(msg).some
          /\ SecondValue(msg).val.tag = "str"
          /\ SecondValue(msg).rest = <<>>
    /\ \A t \in Trailers \ {<<>>} : msg = WithBody(B_hi, t) => req.state = "failed"

\* C8 as amended: a message is accepted only if the bytes after the path
\* begin with two Typed-Values, the headers and a String body; a body of
\* another variant or a missing or malformed second value makes parse
\* fail; bytes after the body's encoding are ignored.
C8_TwoValues ==
    /\ Accepted =>
          /\ FirstValue(msg).some
          /\ SecondValue(msg).some
          /\ SecondValue(msg).val.tag = "str"
          /\ req.r.body = SecondValue(msg).val.v
    /\ \A b \in BodyShapes \ {B_hi, B_empty, <<>>} :
          \A t \in Trailers : msg = WithBody(b, t) => req.state = "failed"
    /\ \A t \in Trailers \ {B_hi} : msg = WithBody(<<>>, t) => req.state = "failed"
    /\ \A t \in Trailers : msg = WithBody(B_hi, t) => Accepted /\ req.r.body = W_hi

C8_Witness ==
    /\ Accepted
    /\ msg = WithBody(B_hi, <<"x">>)
    /\ SecondValue(msg).rest = <<"x">>

\* C9 as claimed: in an accepted request every header key maps to a
\* non-empty list.
C9_NoEmptyList ==
    Accepted => \A k \in DOMAIN req.r.headers : req.r.headers[k] # <<>>

\* C10 as claimed: in an accepted request uuid and id are non-empty.
C10_NonEmptyTokens ==
    Accepted => req.r.uuid # <<>> /\ req.r.id # <<>>

-----------------------------------------------------------------------------
(* Specifications: the whole connection, its receiving side and its        *)
(* replying side.                                                          *)

NextDecode ==
    \/ Recv
    \/ IsDisconnect
    \/ ShouldClose

NextReply ==
    \/ Recv
    \/ Send
    \/ Reply
    \/ ReplyHttp

SpecDecode == Init /\ [][NextDecode]_vars

SpecReply == Init /\ [][NextReply]_vars


====
